---- MODULE Spec2Model ----
(***************************************************************************)
(* Model of the REG_MULTI_SZ codec of                                      *)
(* registry/Experimental/fontlink/reg_multi_sz_converter.py                *)
(* (class RegMultiSzConverter).                                            *)
(*                                                                         *)
(* A Python str is a sequence of code points (integers); a text that the   *)
(* codec scans character by character (the hex(7): form) is a sequence of  *)
(* one-character strings; a bytes object is a sequence of 0..255.          *)
(* A call that raises is the record [ok |-> FALSE, error, message, ...].   *)
(*                                                                         *)
(* and of the backup and modification process of                           *)
(* registry/Experimental/fontlink/font_link_manager.py                     *)
(* (class FontLinkManager), which encodes the values it reads from the     *)
(* registry with that codec.                                               *)
(***************************************************************************)
EXTENDS Integers, Sequences, FiniteSets, TLC

VARIABLES
    pc,             \* which call has last returned
    strings,        \* argument of encode_to_hex_string: [isstr, value]
    format_style,   \* argument of encode_to_hex_string
    encoded,        \* outcome of encode_to_hex_string(strings, format_style)
    hex_string,     \* argument of decode_hex_string
    decoded,        \* outcome of decode_hex_string(hex_string)
    wrapped_string, \* hex_string with hand-written continuations inserted
    wrapped_decoded, \* outcome of decode_hex_string(wrapped_string)
    mpc,            \* where run_full_process is
    store,          \* the registry: what is stored under each path and name
    writes,         \* how many times another program has written the registry
    backup_file,    \* run_full_process: the name of the backup file
    modified_file,  \* run_full_process: the name of the modified file
    arch_i,         \* index in registry_paths of the loop that is running
    font_i,         \* index in target_fonts of the loop that is running
    font_links,     \* the value read last: [by, found, value]
    files,          \* the files: [exists, opened_by, lines] by name
    calls,          \* the methods run_full_process has called, in order
    backup_result,  \* what backup_font_links returned
    create_result,  \* what create_modified_reg returned
    success         \* what run_full_process returned

codec_vars == <<pc, strings, format_style, encoded, hex_string, decoded,
                wrapped_string, wrapped_decoded>>

manager_vars == <<mpc, store, writes, backup_file, modified_file, arch_i, font_i,
                  font_links, files, calls, backup_result, create_result, success>>

vars == <<pc, strings, format_style, encoded, hex_string, decoded,
          wrapped_string, wrapped_decoded,
          mpc, store, writes, backup_file, modified_file, arch_i, font_i,
          font_links, files, calls, backup_result, create_result, success>>

(***************************************************************************)
(* Bounds of the enumerated inputs.                                        *)
(***************************************************************************)
MaxUnits == 5       \* code points in all entries of an encoded list together
MaxEntries == 2     \* entries of an encoded list
MaxTokens == 3      \* comma-separated tokens of a hand-written hex text
MaxBreaks == 2      \* continuations inserted in a hand-written hex text
MaxWrites == 2      \* writes of other programs to the registry

(***************************************************************************)
(* Code points of the enumerated strings: 'A' (U+0041) and U+1F600, which  *)
(* lies outside the Basic Multilingual Plane (two UTF-16 code units). They *)
(* are Unicode scalar values: str.encode raises on a lone surrogate code   *)
(* point, which is no text and is not enumerated.                          *)
(***************************************************************************)
NUL == <<0>>
Chars == {65, 128512}

RECURSIVE StrsUpTo(_)
StrsUpTo(n) ==
    IF n = 0 THEN {<<>>}
    ELSE LET S == StrsUpTo(n - 1)
         IN  S \cup {Append(s, c) : s \in {t \in S : Len(t) = n - 1}, c \in Chars}

RECURSIVE ListsOf(_, _)
\* the lists of exactly k entries with at most n code points together
ListsOf(k, n) ==
    IF k = 0 THEN {<<>>}
    ELSE UNION {{<<s>> \o l : l \in ListsOf(k - 1, n - Len(s))} : s \in StrsUpTo(n)}

\* "Arial" and ["A", "B"], the scenarios of the specification, and lists
\* with entries that hold U+0000
Arial == <<65, 114, 105, 97, 108>>
ScenarioLists ==
    { <<Arial>>, <<<<65>>, <<66>>>>,
      <<NUL>>, <<<<65, 0, 65>>>>, <<<<65, 0>>, <<65>>>>, <<<<0, 65>>, <<128512>>>> }

StringLists == UNION {ListsOf(k, MaxUnits) : k \in 0..MaxEntries} \cup ScenarioLists

\* the bare strings handed to encode in the place of a list
SingleStrings == StrsUpTo(2)

FormatStyles == {"compact", "regedit", "bogus"}

(***************************************************************************)
(* Characters of a hex text.                                               *)
(***************************************************************************)
HexChars == <<"0", "1", "2", "3", "4", "5", "6", "7",
              "8", "9", "a", "b", "c", "d", "e", "f">>
HexTag == <<"h", "e", "x", "(", "7", ")", ":">>

\* f"{b:02x}"
Format02x(b) == <<HexChars[(b \div 16) + 1], HexChars[(b % 16) + 1]>>

\* str.encode('utf-16le') of one code point (a Unicode scalar value): one
\* little-endian code unit, or a surrogate pair above U+FFFF
EncodeCodePoint(cp) ==
    IF cp < 65536
    THEN <<cp % 256, cp \div 256>>
    ELSE LET v  == cp - 65536
             hi == 55296 + (v \div 1024)
             lo == 56320 + (v % 1024)
         IN  <<hi % 256, hi \div 256, lo % 256, lo \div 256>>

RECURSIVE For(_, _, _, _)
\* a loop "for i in lo..hi: st = Step(i, st)": the value of st after it. The
\* range is halved; the first half's result is bound as the element of a
\* one-element set, so that it is a value when the second half starts from it.
For(Step(_, _), lo, hi, st) ==
    IF lo > hi THEN st
    ELSE IF lo = hi THEN Step(lo, st)
    ELSE CHOOSE r \in { For(Step, mid + 1, hi, left) :
                          mid \in {(lo + hi) \div 2},
                          left \in {For(Step, lo, (lo + hi) \div 2, st)} } : TRUE

\* str.encode('utf-16le'): the code units of the code points in order
Utf16leEncode(s) ==
    LET Step(i, bytes) == bytes \o EncodeCodePoint(s[i])
    IN  For(Step, 1, Len(s), <<>>)

\* sep.join(parts)
StrJoin(sep, parts) ==
    LET Step(i, joined) == IF i = 1 THEN parts[1] ELSE joined \o sep \o parts[i]
    IN  For(Step, 1, Len(parts), <<>>)

\* the bug of joining the entries with no separator between them
CombinedStringNoSeparator(strs) == StrJoin(<<>>, strs) \o NUL \o NUL

\* the bug of appending one null code unit only
CombinedStringOneNul(strs) == StrJoin(NUL, strs) \o NUL

\* combined_string = '\x00'.join(strings) + '\x00\x00'
CombinedString(strs) == StrJoin(NUL, strs) \o NUL \o NUL

\* hex_bytes = [f"{b:02x}" for b in byte_data]
HexBytes(byte_data) == [i \in 1..Len(byte_data) |-> Format02x(byte_data[i])]

\* "hex(7):" + ",".join(hex_bytes)
CompactFormat(hex_bytes) == HexTag \o StrJoin(<<",">>, hex_bytes)

max_line_length == 75

\* the bug of writing the line break with no comma before the backslash
MarkerWithoutComma == <<"\\", "\n", " ", " ">>

\* the text written at a line break: a comma, a backslash, a newline and
\* two spaces
ContinuationMarker == <<",", "\\", "\n", " ", " ">>

\* the body of the loop "for i, hex_byte in enumerate(hex_bytes)", i counted
\* from 1 here, on the loop's two variables
RegeditStep(hex_bytes, i, st) ==
    LET hex_byte == hex_bytes[i]
        addition == <<",">> \o hex_byte
    IN  IF i = 1
        THEN [result      |-> st.result \o hex_byte,
              line_length |-> st.line_length + Len(hex_byte)]
        ELSE IF st.line_length + Len(addition) > max_line_length
        THEN [result      |-> st.result \o ContinuationMarker \o hex_byte,
              line_length |-> 2 + Len(hex_byte)]
        ELSE [result      |-> st.result \o addition,
              line_length |-> st.line_length + Len(addition)]

\* result = "hex(7):", line_length = 7, the loop, return result
RegeditFormat(hex_bytes) ==
    LET Step(i, st) == RegeditStep(hex_bytes, i, st)
    IN  For(Step, 1, Len(hex_bytes), [result |-> HexTag, line_length |-> 7]).result

Raise(message, detail) ==
    [ok |-> FALSE, error |-> "ValueError", message |-> message, detail |-> detail]

Return(value) == [ok |-> TRUE, value |-> value]

\* the bug of looking at the style before the list
encode_style_first(arg, style) ==
    LET strs == IF arg.isstr THEN <<arg.value>> ELSE arg.value
    IN  IF style \notin {"compact", "regedit"}
        THEN Raise("UnsupportedStyle", style)
        ELSE IF strs = <<>> THEN Raise("EmptyList", <<>>)
        ELSE LET hex_bytes == HexBytes(Utf16leEncode(CombinedString(strs)))
             IN  IF style = "compact" THEN Return(CompactFormat(hex_bytes))
                 ELSE Return(RegeditFormat(hex_bytes))

\* if isinstance(strings, str): strings = [strings]
AsList(arg) == IF arg.isstr THEN <<arg.value>> ELSE arg.value

encode_to_hex_string(arg, style) ==
    LET strs == AsList(arg)
    IN  IF strs = <<>>
        THEN Raise("EmptyList", <<>>)
        ELSE LET hex_bytes == HexBytes(Utf16leEncode(CombinedString(strs)))
             IN  IF style = "compact" THEN Return(CompactFormat(hex_bytes))
                 ELSE IF style = "regedit" THEN Return(RegeditFormat(hex_bytes))
                 ELSE Raise("UnsupportedStyle", style)

(***************************************************************************)
(* decode_hex_string                                                       *)
(***************************************************************************)
\* the characters of the enumerated texts that the pattern \s matches
IsSpace(c) == c \in {" ", "\t", "\n", "\r"}

\* case folding of re.IGNORECASE and of int(), on the letters of the texts
Lower(c) ==
    CASE c = "A" -> "a" [] c = "B" -> "b" [] c = "C" -> "c" [] c = "D" -> "d"
      [] c = "E" -> "e" [] c = "F" -> "f" [] c = "H" -> "h" [] c = "X" -> "x"
      [] OTHER -> c

RECURSIVE SkipSpaces(_, _)
\* where a greedy \s* that starts at index i ends: the first index from i on
\* that holds no whitespace (Len(s) + 1 when there is none)
SkipSpaces(s, i) ==
    IF i > Len(s) \/ ~IsSpace(s[i]) THEN i ELSE SkipSpaces(s, i + 1)

\* the pattern hex\(7\): under re.IGNORECASE matches s at index i
TagAt(s, i) ==
    /\ i + 6 <= Len(s)
    /\ \A k \in 1..7 : Lower(s[i + k - 1]) = HexTag[k]

\* re.sub(r'^hex\(7\):\s*', '', hex_string, flags=re.IGNORECASE)
SubTag(s) == IF TagAt(s, 1) THEN SubSeq(s, SkipSpaces(s, 8), Len(s)) ELSE s

\* re.sub(pattern, '', s) for a pattern that matches no empty text: the
\* text is scanned from the left; where MatchEnd(i) > i the characters from
\* i up to MatchEnd(i) - 1 are a match and are left out, and the scan goes
\* on after them
SubMatches(s, MatchEnd(_)) ==
    LET Step(i, st) ==
            IF i < st.next THEN st
            ELSE IF MatchEnd(i) > i THEN [out |-> st.out, next |-> MatchEnd(i)]
            ELSE [out |-> Append(st.out, s[i]), next |-> i + 1]
    IN  For(Step, 1, Len(s), [out |-> <<>>, next |-> 1]).out

\* where a match of \\\s*\n\s* that starts at index i ends (i when there is
\* none): a backslash and the whitespace that follows it match when that
\* whitespace holds a newline
ContinuationEnd(s, i) ==
    LET e == SkipSpaces(s, i + 1)
    IN  IF s[i] = "\\" /\ \E j \in (i + 1)..(e - 1) : s[j] = "\n" THEN e ELSE i

\* re.sub(r'\\\s*\n\s*', '', hex_data)
SubContinuation(s) == SubMatches(s, LAMBDA i : ContinuationEnd(s, i))

\* where a match of \\\s*$ under re.MULTILINE that starts at index i ends (i
\* when there is none): a backslash and the longest whitespace after it that
\* ends at the end of the text or just before a newline
TrailingEnd(s, i) ==
    LET e    == SkipSpaces(s, i + 1)
        ends == {j \in (i + 1)..e : j = Len(s) + 1 \/ s[j] = "\n"}
    IN  IF s[i] = "\\" /\ ends # {}
        THEN CHOOSE j \in ends : \A k \in ends : k <= j
        ELSE i

\* re.sub(r'\\\s*$', '', hex_data, flags=re.MULTILINE)
SubTrailing(s) == SubMatches(s, LAMBDA i : TrailingEnd(s, i))

\* re.sub(r'\s', '', s)
SubSpaces(s) == SelectSeq(s, LAMBDA c : ~IsSpace(c))

\* s.split(sep) for a one-element separator: the pieces before, between and
\* after the separators, in order, empty pieces included
Split(s, sep) ==
    LET at  == SelectSeq([i \in 1..Len(s) |-> i], LAMBDA i : s[i] = sep)
        n   == Len(at)
        lo(k) == IF k = 1 THEN 1 ELSE at[k - 1] + 1
        hi(k) == IF k = n + 1 THEN Len(s) ELSE at[k] - 1
    IN  [k \in 1..(n + 1) |-> SubSeq(s, lo(k), hi(k))]

RECURSIVE LStrip(_)
LStrip(s) == IF s # <<>> /\ IsSpace(Head(s)) THEN LStrip(Tail(s)) ELSE s

RECURSIVE RStripSpaces(_)
RStripSpaces(s) ==
    IF s # <<>> /\ IsSpace(s[Len(s)]) THEN RStripSpaces(SubSeq(s, 1, Len(s) - 1)) ELSE s

\* b.strip()
Strip(s) == RStripSpaces(LStrip(s))

\* hex_bytes = [b.strip() for b in hex_data.split(',') if b.strip()]
Fragments(hex_data) ==
    LET parts == Split(hex_data, ",")
        kept  == SelectSeq(parts, LAMBDA b : Strip(b) # <<>>)
    IN  [i \in 1..Len(kept) |-> Strip(kept[i])]

IsHexDigit(c) == \E k \in 1..16 : HexChars[k] = Lower(c)
DigitValue(c) == (CHOOSE k \in 1..16 : HexChars[k] = Lower(c)) - 1

RECURSIVE DigitsValue(_, _)
\* the number the digits write after acc, underscores skipped. A Python int
\* has no width: a number above 255 is kept as 256, which the one reader of
\* the value, the byte test of bytearray.append, tells from no other.
DigitsValue(ds, acc) ==
    IF ds = <<>> THEN acc
    ELSE IF Head(ds) = "_" THEN DigitsValue(Tail(ds), acc)
    ELSE LET v == 16 * acc + DigitValue(Head(ds))
         IN  DigitsValue(Tail(ds), IF v > 255 THEN 256 ELSE v)

\* the text of int() after its optional sign
Unsigned(f) == IF f # <<>> /\ f[1] \in {"+", "-"} THEN Tail(f) ELSE f

\* the text of int() after its optional 0x or 0X, and after the one
\* underscore that may follow that prefix
Unprefixed(a) ==
    IF Len(a) >= 2 /\ a[1] = "0" /\ Lower(a[2]) = "x"
    THEN IF Len(a) >= 3 /\ a[3] = "_" THEN SubSeq(a, 4, Len(a)) ELSE SubSeq(a, 3, Len(a))
    ELSE a

\* hexadecimal digits of either case with single underscores between them
IsDigits(ds) ==
    /\ ds # <<>>
    /\ IsHexDigit(ds[1])
    /\ IsHexDigit(ds[Len(ds)])
    /\ \A k \in 1..Len(ds) : IsHexDigit(ds[k]) \/ ds[k] = "_"
    /\ \A k \in 1..(Len(ds) - 1) : ~(ds[k] = "_" /\ ds[k + 1] = "_")

\* the value of the text f whose digits are ds. [ok, value]
IntOf(f, ds) ==
    IF IsDigits(ds)
    THEN [ok |-> TRUE, value |-> IF f[1] = "-" THEN 0 - DigitsValue(ds, 0)
                                               ELSE DigitsValue(ds, 0)]
    ELSE [ok |-> FALSE, value |-> 0]

\* int(hex_byte, 16): an optional sign, an optional 0x or 0X, then hexadecimal
\* digits of either case with single underscores between them (one more may
\* follow the prefix). [ok, value]
ParseInt16(f) == IntOf(f, Unprefixed(Unsigned(f)))

\* byte_array.append(int(hex_byte, 16)) raises ValueError when int() does and
\* when the value is no byte
ByteOf(f) ==
    LET n == ParseInt16(f)
    IN  IF n.ok /\ n.value >= 0 /\ n.value < 256
        THEN [ok |-> TRUE, value |-> n.value]
        ELSE [ok |-> FALSE, value |-> 0]

\* the loop "for hex_byte in hex_bytes": the byte array, or the first
\* fragment that raises
ParseBytes(frags) ==
    LET Step(i, st) ==
            IF ~st.ok THEN st
            ELSE IF ~ByteOf(frags[i]).ok THEN Raise("InvalidHexData", frags[i])
            ELSE Return(Append(st.value, ByteOf(frags[i]).value))
    IN  For(Step, 1, Len(frags), Return(<<>>))

IsHighSurrogate(u) == u >= 55296 /\ u <= 56319
IsLowSurrogate(u) == u >= 56320 /\ u <= 57343

\* what the decoder does at index i of the bytes, a code unit read up to
\* there: the next code point, or the error of errors='strict'
Utf16leDecodeAt(b, i, st) ==
    IF i = Len(b) THEN Raise("Utf16DecodeFailed", "truncated data")
    ELSE LET u == b[i] + 256 * b[i + 1]
         IN  IF IsLowSurrogate(u) THEN Raise("Utf16DecodeFailed", "illegal encoding")
             ELSE IF ~IsHighSurrogate(u)
             THEN [ok |-> TRUE, value |-> Append(st.value, u), next |-> i + 2]
             ELSE IF i + 3 > Len(b)
             THEN Raise("Utf16DecodeFailed", "unexpected end of data")
             ELSE LET u2 == b[i + 2] + 256 * b[i + 3]
                  IN  IF ~IsLowSurrogate(u2)
                      THEN Raise("Utf16DecodeFailed", "illegal UTF-16 surrogate")
                      ELSE [ok    |-> TRUE,
                            value |-> Append(st.value,
                                         65536 + (u - 55296) * 1024 + (u2 - 56320)),
                            next  |-> i + 4]

\* bytes.decode('utf-16le'), errors='strict': the code points, or the first
\* error from the left
Utf16leDecodeStrict(b) ==
    LET Step(i, st) ==
            IF ~st.ok \/ i < st.next THEN st ELSE Utf16leDecodeAt(b, i, st)
        end == For(Step, 1, Len(b), [ok |-> TRUE, value |-> <<>>, next |-> 1])
    IN  IF end.ok THEN Return(end.value) ELSE end

\* the bug of decoding with errors='ignore': an odd last byte is dropped
Utf16leDecodeIgnoreOdd(b) ==
    Utf16leDecodeStrict(SubSeq(b, 1, Len(b) - (Len(b) % 2)))

\* byte_array.decode('utf-16le')
Utf16leDecode(b) == Utf16leDecodeStrict(b)

RECURSIVE RStripNul(_)
\* decoded_string.rstrip('\x00')
RStripNul(s) ==
    IF s # <<>> /\ s[Len(s)] = 0 THEN RStripNul(SubSeq(s, 1, Len(s) - 1)) ELSE s

\* the bug of returning the pieces of the split unfiltered
SplitStringsKeepEmpty(decoded_string) == Split(RStripNul(decoded_string), 0)

\* strings = decoded_string.rstrip('\x00').split('\x00')
\* return [s for s in strings if s]
SplitStrings(decoded_string) ==
    SelectSeq(Split(RStripNul(decoded_string), 0), LAMBDA s : s # <<>>)

\* the bug of leaving the two continuation substitutions out
HexDataNoContinuation(text) == SubSpaces(SubTag(text))

\* the text handed to split(','): the tag, the continuations and the
\* whitespace removed
HexData(text) == SubSpaces(SubTrailing(SubContinuation(SubTag(text))))

\* the end of decode_hex_string, from the outcome of the decoding on: its
\* error, or the strings of the decoded text
SplitDecoded(decoded_string) ==
    IF ~decoded_string.ok THEN decoded_string
    ELSE Return(SplitStrings(decoded_string.value))

\* decode_hex_string from the outcome of the byte loop on: its error, or the
\* decoding of the byte array
DecodeBytes(byte_array) ==
    IF ~byte_array.ok THEN byte_array
    ELSE SplitDecoded(Utf16leDecode(byte_array.value))

decode_hex_string(text) == DecodeBytes(ParseBytes(Fragments(HexData(text))))

\* bool(re.search(r'hex\(7\):', text, re.IGNORECASE))
is_hex_data(text) == \E i \in 1..Len(text) : TagAt(text, i)

(***************************************************************************)
(* The hex texts handed to decode_hex_string: what may stand before the    *)
(* byte groups, then up to MaxTokens tokens joined by commas.              *)
(***************************************************************************)
UpperTag == <<"H", "E", "X", "(", "7", ")", ":">>
Heads ==
    { HexTag,                                   \* hex(7):
      UpperTag,                                 \* HEX(7):
      <<" ">> \o HexTag,                        \* whitespace before the tag
      <<"\"", "A", "\"", "=">> \o HexTag }      \* a script line "A"=hex(7):

WellFormedTokens ==
    { <<"4", "1", ",", "0", "0">>,              \* 'A'
      <<"0", "0", ",", "0", "0">>,              \* U+0000
      <<"0", "0", ",", "d", "8">>,              \* U+D800, a lone surrogate
      <<"4", "1">> }                            \* one byte
Tokens ==
    WellFormedTokens \cup
    { <<"a">>, <<"1", "0", "0">>, <<"+", "5">>, <<"0", "x", "1", "f">>,
      <<"z", "z">>, <<>> }

RECURSIVE TokenSeqs(_)
TokenSeqs(n) ==
    IF n = 0 THEN {<<>>}
    ELSE LET S == TokenSeqs(n - 1)
         IN  S \cup {Append(ts, t) : ts \in {x \in S : Len(x) = n - 1}, t \in Tokens}

HexTexts == {h \o StrJoin(<<",">>, ts) : h \in Heads, ts \in TokenSeqs(MaxTokens)}

\* a comma-separated piece that is one byte group as encode writes it
IsByteGroup(f) == Len(f) = 2 /\ IsHexDigit(f[1]) /\ IsHexDigit(f[2])

\* the byte groups of a compact text: hex(7): and then groups of two
\* hexadecimal digits with one comma between them
CompactGroups(text) == Split(SubSeq(text, 8, Len(text)), ",")
IsCompact(text) ==
    /\ Len(text) > 7
    /\ SubSeq(text, 1, 7) = HexTag
    /\ \A k \in 1..Len(CompactGroups(text)) : IsByteGroup(CompactGroups(text)[k])

\* the continuations a hand-written text puts in the place of a comma
Continuations ==
    { <<",", "\\", "\n", " ", " ">>,            \* as regedit writes it
      <<",", " ", "\\", " ", "\n", "\t">>,      \* other whitespace around it
      <<",", "\\", "\r", "\n">> }               \* a CRLF line end, no indent

RECURSIVE JoinBroken(_, _, _, _)
\* the groups from index k on, with cont after the groups whose index is in
\* breaks and a comma after the others
JoinBroken(groups, k, breaks, cont) ==
    IF k > Len(groups) THEN <<>>
    ELSE IF k = Len(groups) THEN groups[k]
    ELSE groups[k] \o (IF k \in breaks THEN cont ELSE <<",">>)
             \o JoinBroken(groups, k + 1, breaks, cont)

HandWrapped(text, breaks, cont) ==
    HexTag \o JoinBroken(CompactGroups(text), 1, breaks, cont)

None == [ok |-> FALSE, error |-> "none", message |-> "", detail |-> <<>>]
NoArg == [isstr |-> FALSE, value |-> <<>>]

(***************************************************************************)
(* FontLinkManager: what its constructor is given, the registry it reads   *)
(* and the files it writes.                                                *)
(***************************************************************************)
\* the keys of the dict registry_paths, in the order of the dict
registry_paths == <<"64bit", "32bit">>
target_fonts == <<"Arial", "Tahoma">>
append_fonts == {"Arial"}
\* one entry, "P1"
font_entries == <<<<80, 49>>>>

\* the places read: a path of registry_paths and a name of target_fonts
Places == (1..Len(registry_paths)) \X (1..Len(target_fonts))

\* what the registry may hold at a place: nothing, a REG_MULTI_SZ list (the
\* empty list among them), a value of another type, or a value that the
\* process has no permission to read
Absent == [kind |-> "absent", value |-> <<>>]
StoredValues ==
    { Absent,
      [kind |-> "multi_sz", value |-> <<>>],
      [kind |-> "multi_sz", value |-> <<Arial>>],
      [kind |-> "other", value |-> <<>>],
      [kind |-> "denied", value |-> <<>>] }

\* the file names handed to run_full_process; "" stands for None and for
\* the empty name, which "or" replaces alike
FileArgs == {"", "out.reg"}
DefaultBackup == "fontlink_backup_timestamp.reg"
DefaultModified == "fontlink_modified_timestamp.reg"
FileNames == {"out.reg", DefaultBackup, DefaultModified}

NoFile == [exists |-> FALSE, opened_by |-> "", lines |-> <<>>]
NotRead == [by |-> "", found |-> FALSE, value |-> <<>>]

ManagerInit ==
    /\ mpc = "idle"
    /\ store = [p \in Places |-> Absent]
    /\ writes = 0
    /\ backup_file = ""
    /\ modified_file = ""
    /\ arch_i = 1
    /\ font_i = 1
    /\ font_links = NotRead
    /\ files = [n \in FileNames |-> NoFile]
    /\ calls = <<>>
    /\ backup_result = "pending"
    /\ create_result = "pending"
    /\ success = "pending"

Init ==
    /\ pc = "idle"
    /\ strings = NoArg
    /\ format_style = ""
    /\ encoded = None
    /\ hex_string = <<>>
    /\ decoded = None
    /\ wrapped_string = <<>>
    /\ wrapped_decoded = None
    /\ ManagerInit

\* a caller calls encode_to_hex_string(list, style)
Encode ==
    /\ pc = "idle"
    /\ \E l \in StringLists, style \in FormatStyles :
          /\ strings' = [isstr |-> FALSE, value |-> l]
          /\ format_style' = style
          /\ encoded' = encode_to_hex_string([isstr |-> FALSE, value |-> l], style)
    /\ pc' = "encoded"
    /\ UNCHANGED <<hex_string, decoded, wrapped_string, wrapped_decoded>>
    /\ UNCHANGED manager_vars

\* a caller calls encode_to_hex_string(s, style) with one bare string
EncodeSingle ==
    /\ pc = "idle"
    /\ \E s \in SingleStrings, style \in FormatStyles :
          /\ strings' = [isstr |-> TRUE, value |-> s]
          /\ format_style' = style
          /\ encoded' = encode_to_hex_string([isstr |-> TRUE, value |-> s], style)
    /\ pc' = "encoded"
    /\ UNCHANGED <<hex_string, decoded, wrapped_string, wrapped_decoded>>
    /\ UNCHANGED manager_vars

\* the caller hands the text encode returned to decode_hex_string
DecodeEncoded ==
    /\ pc = "encoded"
    /\ encoded.ok
    /\ hex_string' = encoded.value
    /\ decoded' = decode_hex_string(encoded.value)
    /\ pc' = "roundtrip"
    /\ UNCHANGED <<strings, format_style, encoded, wrapped_string, wrapped_decoded>>
    /\ UNCHANGED manager_vars

\* a caller calls decode_hex_string(text) on a text of its own
Decode ==
    /\ pc = "idle"
    /\ \E text \in HexTexts :
          /\ hex_string' = text
          /\ decoded' = decode_hex_string(text)
    /\ pc' = "decoded"
    /\ UNCHANGED <<strings, format_style, encoded, wrapped_string, wrapped_decoded>>
    /\ UNCHANGED manager_vars

\* the caller rewrites a compact text with continuations between some of
\* its byte groups and calls decode_hex_string on the result
DecodeWrapped ==
    /\ pc = "decoded"
    /\ IsCompact(hex_string)
    /\ \E breaks \in SUBSET (1..(Len(CompactGroups(hex_string)) - 1)),
          cont \in Continuations :
          /\ breaks # {}
          /\ Cardinality(breaks) <= MaxBreaks
          /\ wrapped_string' = HandWrapped(hex_string, breaks, cont)
          /\ wrapped_decoded' = decode_hex_string(HandWrapped(hex_string, breaks, cont))
    /\ pc' = "rewrapped"
    /\ UNCHANGED <<strings, format_style, encoded, hex_string, decoded>>
    /\ UNCHANGED manager_vars

Next == Encode \/ EncodeSingle \/ DecodeEncoded \/ Decode \/ DecodeWrapped

Spec == Init /\ [][Next]_vars

(***************************************************************************)
(* Properties of the codec.                                                *)
(***************************************************************************)
\* the list the last encode call worked on
EncodedList == AsList(strings)

\* a valid StringList: no empty entry, no entry with a null code unit
IsValidList(l) ==
    \A k \in 1..Len(l) : l[k] # <<>> /\ \A j \in 1..Len(l[k]) : l[k][j] # 0

\* C1: round trip. Decoding what encode returned for a non-empty list of
\* non-empty strings without null code units, in the compact or the regedit
\* style, returns that list: the same entries in the same order.
RoundTrip ==
    (/\ pc = "roundtrip"
     /\ EncodedList # <<>>
     /\ IsValidList(EncodedList))
        => decoded = Return(EncodedList)

\* a regedit text of two entries that was wrapped is decoded to its list
RoundTripWitness ==
    /\ pc = "roundtrip"
    /\ format_style = "regedit"
    /\ ~strings.isstr
    /\ Len(EncodedList) = 2
    /\ EncodedList[1] # EncodedList[2]
    /\ IsValidList(EncodedList)
    /\ \E i \in 1..Len(hex_string) : hex_string[i] = "\n"
    /\ decoded = Return(EncodedList)

\* the lines of a text
Lines(text) == Split(text, "\n")

\* C2: wrap width. No line of a regedit output is longer than 75
\* characters, the trailing comma and backslash counted.
WrapWidth ==
    (pc = "encoded" /\ format_style = "regedit" /\ encoded.ok)
        => \A k \in 1..Len(Lines(encoded.value)) :
               Len(Lines(encoded.value)[k]) <= 75

\* the text with every comma-backslash-newline-space-space replaced by the
\* comma it stands for
StripMarkers(text) ==
    LET IsMarker(i) ==
            /\ i + 4 <= Len(text)
            /\ SubSeq(text, i, i + 4) = <<",", "\\", "\n", " ", " ">>
        Step(i, st) ==
            IF i < st.next THEN st
            ELSE IF IsMarker(i) THEN [out |-> Append(st.out, ","), next |-> i + 5]
            ELSE [out |-> Append(st.out, text[i]), next |-> i + 1]
    IN  For(Step, 1, Len(text), [out |-> <<>>, next |-> 1]).out

\* C3: the regedit output with its continuation markers replaced by commas
\* has no whitespace or backslash left (no group is split) and is exactly
\* the compact output for the same list.
WrappedCarriesCompact ==
    (pc = "encoded" /\ format_style = "regedit" /\ encoded.ok)
        => LET stripped == StripMarkers(encoded.value)
           IN  /\ stripped = encode_to_hex_string(strings, "compact").value
               /\ \A i \in 1..Len(stripped) :
                      ~IsSpace(stripped[i]) /\ stripped[i] # "\\"

\* a regedit output of two entries with a continuation in it
WrappedCarriesCompactWitness ==
    /\ pc = "encoded"
    /\ format_style = "regedit"
    /\ encoded.ok
    /\ Len(EncodedList) = 2
    /\ Len(Lines(encoded.value)) = 2
    /\ StripMarkers(encoded.value) = encode_to_hex_string(strings, "compact").value

\* the comma-separated fragments decode_hex_string parses in a text
FragmentsOf(text) == Fragments(HexData(text))

\* C4: malformed byte groups are rejected. When a fragment of the text is
\* not exactly two hexadecimal digits, decode fails.
MalformedGroupRejected ==
    (/\ pc = "decoded"
     /\ \E k \in 1..Len(FragmentsOf(hex_string)) :
            ~IsByteGroup(FragmentsOf(hex_string)[k]))
        => ~decoded.ok

\* the text that follows the first hex(7): tag of a text that has one
AfterTag(text) ==
    LET i == CHOOSE j \in 1..Len(text) :
                 TagAt(text, j) /\ \A k \in 1..(j - 1) : ~TagAt(text, k)
    IN  SubSeq(text, i + 7, Len(text))

\* C5: tag location. A text that holds the hex(7): tag anywhere, with
\* well-formed byte groups after it that decode to a list, decodes to that
\* list.
TagLocatedAnywhere ==
    (/\ pc = "decoded"
     /\ is_hex_data(hex_string)
     /\ FragmentsOf(AfterTag(hex_string)) # <<>>
     /\ \A k \in 1..Len(FragmentsOf(AfterTag(hex_string))) :
            IsByteGroup(FragmentsOf(AfterTag(hex_string))[k])
     /\ decode_hex_string(AfterTag(hex_string)).ok)
        => decoded = decode_hex_string(AfterTag(hex_string))

\* C6: encode rejection. An empty list fails as an empty list whatever the
\* style; a non-empty list with a style other than compact and regedit
\* fails naming the style; a bare string is encoded as the list of it.
EncodeRejection ==
    pc = "encoded" =>
        /\ (~strings.isstr /\ strings.value = <<>>)
               => (~encoded.ok /\ encoded.message = "EmptyList")
        /\ (~(~strings.isstr /\ strings.value = <<>>)
              /\ format_style \notin {"compact", "regedit"})
               => /\ ~encoded.ok
                  /\ encoded.message = "UnsupportedStyle"
                  /\ encoded.detail = format_style
        /\ strings.isstr
               => encoded = encode_to_hex_string(
                      [isstr |-> FALSE, value |-> <<strings.value>>], format_style)

\* the empty list with an unsupported style fails as an empty list
EncodeRejectionWitness ==
    /\ pc = "encoded"
    /\ ~strings.isstr
    /\ strings.value = <<>>
    /\ format_style = "bogus"
    /\ ~encoded.ok
    /\ encoded.message = "EmptyList"

\* C7: odd byte length. A text whose fragments are all bytes, in an odd
\* number, fails in the UTF-16LE decoding and returns no list.
OddByteLengthRejected ==
    (/\ pc = "decoded"
     /\ Len(FragmentsOf(hex_string)) % 2 = 1
     /\ \A k \in 1..Len(FragmentsOf(hex_string)) :
            ByteOf(FragmentsOf(hex_string)[k]).ok)
        => (~decoded.ok /\ decoded.message = "Utf16DecodeFailed")

\* hex(7):41 fails on its truncated data
OddByteLengthWitness ==
    /\ pc = "decoded"
    /\ hex_string = HexTag \o <<"4", "1">>
    /\ ~decoded.ok
    /\ decoded.message = "Utf16DecodeFailed"
    /\ decoded.detail = "truncated data"

RECURSIVE Blob(_)
\* the bytes of a multi-string value: every entry followed by one null code
\* unit, and one more null code unit at the end
Blob(l) ==
    IF l = <<>> THEN <<0, 0>>
    ELSE Utf16leEncode(Head(l)) \o <<0, 0>> \o Blob(Tail(l))

RECURSIVE SumLen(_)
SumLen(l) == IF l = <<>> THEN 0 ELSE Len(Head(l)) + SumLen(Tail(l))

LowerHexDigits == {HexChars[k] : k \in 1..16}

\* group g is byte b written as two lowercase hexadecimal digits
IsGroupOf(g, b) ==
    /\ Len(g) = 2
    /\ g[1] \in LowerHexDigits
    /\ g[2] \in LowerHexDigits
    /\ 16 * DigitValue(g[1]) + DigitValue(g[2]) = b

ArialCompact ==
    HexTag \o <<"4", "1", ",", "0", "0", ",", "7", "2", ",", "0", "0", ",",
                "6", "9", ",", "0", "0", ",", "6", "1", ",", "0", "0", ",",
                "6", "c", ",", "0", "0", ",", "0", "0", ",", "0", "0", ",",
                "0", "0", ",", "0", "0">>

\* C8: blob layout. The compact output for a non-empty list is hex(7): and
\* the comma-joined two-digit lowercase groups of the bytes of the entries,
\* each followed by a null code unit, and one more null code unit; for
\* entries in the Basic Multilingual Plane that is an even number of
\* groups, 2 * (sum of the lengths + number of entries + 1); the last four
\* groups are 00; ["Arial"] gives the text of the specification.
BlobLayout ==
    (pc = "encoded" /\ format_style = "compact" /\ EncodedList # <<>>)
        => /\ encoded.ok
           /\ SubSeq(encoded.value, 1, 7) = HexTag
           /\ LET groups == CompactGroups(encoded.value)
                  blob   == Blob(EncodedList)
                  n      == Len(groups)
              IN  /\ n = Len(blob)
                  /\ \A k \in 1..n : IsGroupOf(groups[k], blob[k])
                  /\ n >= 4
                  /\ \A k \in (n - 3)..n : groups[k] = <<"0", "0">>
                  /\ (\A e \in 1..Len(EncodedList) :
                          \A j \in 1..Len(EncodedList[e]) : EncodedList[e][j] < 65536)
                         => n = 2 * (SumLen(EncodedList) + Len(EncodedList) + 1)
           /\ EncodedList = <<Arial>> => encoded.value = ArialCompact

\* ["Arial"] is encoded to the text of the specification
BlobLayoutWitness ==
    /\ pc = "encoded"
    /\ format_style = "compact"
    /\ ~strings.isstr
    /\ strings.value = <<Arial>>
    /\ encoded = Return(ArialCompact)

\* C9: continuation stripping. A compact text rewritten with continuations
\* between byte groups decodes to what the compact text decodes to.
ContinuationsCarryNoData ==
    pc = "rewrapped" => wrapped_decoded = decoded

\* a text of two entries, rewritten on three lines, decodes to the two
ContinuationsWitness ==
    /\ pc = "rewrapped"
    /\ Len(Lines(wrapped_string)) = 3
    /\ decoded.ok
    /\ Len(decoded.value) = 2
    /\ wrapped_decoded = decoded

\* the text decode_hex_string splits into entries, for a text whose bytes
\* are UTF-16LE
DecodedString(text) == Utf16leDecode(ParseBytes(FragmentsOf(text)).value).value

\* the indices at which a run of code points other than U+0000 starts
RunStarts(t) == {i \in 1..Len(t) : t[i] # 0 /\ (i = 1 \/ t[i - 1] = 0)}

\* the last index of the run that starts at index a
RunEnd(t, a) ==
    CHOOSE b \in a..Len(t) :
        (\A j \in a..b : t[j] # 0) /\ (b = Len(t) \/ t[b + 1] = 0)

\* entries are the maximal null-free runs of t, in the order of t
IsRunsOf(entries, t) ==
    /\ Len(entries) = Cardinality(RunStarts(t))
    /\ \A a \in RunStarts(t) :
           entries[Cardinality({x \in RunStarts(t) : x <= a})]
               = SubSeq(t, a, RunEnd(t, a))

ShapeOf(text, result) ==
    result.ok =>
        /\ IsValidList(result.value)
        /\ IsRunsOf(result.value, DecodedString(text))

AllNul == HexTag \o <<"0", "0", ",", "0", "0", ",", "0", "0", ",", "0", "0">>

\* C10: decode output shape. A returned list has no empty entry and no null
\* code unit in an entry; its entries are the maximal null-free runs of the
\* decoded text in their order. hex(7): alone and hex(7):00,00,00,00 return
\* the empty list.
DecodeOutputShape ==
    /\ pc \in {"decoded", "roundtrip"} => ShapeOf(hex_string, decoded)
    /\ pc = "rewrapped" => ShapeOf(wrapped_string, wrapped_decoded)
    /\ (pc = "decoded" /\ hex_string \in {HexTag, AllNul}) => decoded = Return(<<>>)

\* a text that starts with a null code unit, holds 'A' and U+1F600 with
\* one between them and ends with two returns the two entries in order
DecodeOutputShapeWitness ==
    /\ pc = "roundtrip"
    /\ DecodedString(hex_string) = <<0, 65, 0, 128512, 0, 0>>
    /\ decoded = Return(<<<<65>>, <<128512>>>>)

(***************************************************************************)
(* FontLinkManager.run_full_process and the methods it calls. A loop over  *)
(* registry_paths and target_fonts takes one step for each name; another   *)
(* program may write the registry between two steps, and the user may      *)
(* interrupt the process at any of them.                                   *)
(***************************************************************************)
\* read_registry_value: the list of a REG_MULTI_SZ value, None for a value
\* of another type, for no value, for no permission (found = FALSE)
read_registry_value(a, f) ==
    IF store[<<a, f>>].kind = "multi_sz"
    THEN [found |-> TRUE, value |-> store[<<a, f>>].value]
    ELSE [found |-> FALSE, value |-> <<>>]

\* font_links of the method m after its read at the place of the loop
ReadBy(m) ==
    [by    |-> m,
     found |-> read_registry_value(arch_i, font_i).found,
     value |-> read_registry_value(arch_i, font_i).value]

\* one f.write: what kind of line, the path or name in it, its data
Line(kind, name, data) == [kind |-> kind, name |-> name, data |-> data]

\* the loop is at the last name of the last path
LastPlace == arch_i = Len(registry_paths) /\ font_i = Len(target_fonts)

\* the loops go on to the next name, or to the first name of the next path
Advance ==
    /\ font_i' = IF font_i < Len(target_fonts) THEN font_i + 1 ELSE 1
    /\ arch_i' = IF font_i < Len(target_fonts) THEN arch_i
                 ELSE IF arch_i < Len(registry_paths) THEN arch_i + 1 ELSE 1

\* the writes at the start of an iteration of the outer loop
SectionLines ==
    IF font_i = 1
    THEN <<Line("comment", registry_paths[arch_i], <<>>),
           Line("section", registry_paths[arch_i], <<>>)>>
    ELSE <<>>

\* f.write('\n') at the end of an iteration of the outer loop
BlankLine ==
    IF font_i = Len(target_fonts) THEN <<Line("blank", "", <<>>)>> ELSE <<>>

\* another program writes or deletes a value of the registry
StoreWrite ==
    /\ mpc # "done"
    /\ writes < MaxWrites
    /\ \E p \in Places, v \in StoredValues :
          /\ v # store[p]
          /\ store' = [store EXCEPT ![p] = v]
    /\ writes' = writes + 1
    /\ UNCHANGED <<mpc, backup_file, modified_file, arch_i, font_i, font_links,
                   files, calls, backup_result, create_result, success>>
    /\ UNCHANGED codec_vars

\* run_full_process is called: the file names, then preview_current_config
RunFullProcess ==
    /\ mpc = "idle"
    /\ \E backup_filename \in FileArgs, modified_filename \in FileArgs :
          /\ backup_file' = IF backup_filename # "" THEN backup_filename
                            ELSE DefaultBackup
          /\ modified_file' = IF modified_filename # "" THEN modified_filename
                              ELSE DefaultModified
    /\ calls' = Append(calls, "preview_current_config")
    /\ mpc' = "preview"
    /\ UNCHANGED <<store, writes, arch_i, font_i, font_links, files,
                   backup_result, create_result, success>>
    /\ UNCHANGED codec_vars

\* preview_current_config: one name is read and printed
PreviewFont ==
    /\ mpc = "preview"
    /\ font_links' = ReadBy("preview_current_config")
    /\ Advance
    /\ mpc' = IF LastPlace THEN "backup" ELSE "preview"
    /\ UNCHANGED <<store, writes, backup_file, modified_file, files, calls,
                   backup_result, create_result, success>>
    /\ UNCHANGED codec_vars

\* backup_font_links is called and opens its file, or open raises OSError
\* and the method returns False
BackupOpen ==
    /\ mpc = "backup"
    /\ calls' = Append(calls, "backup_font_links")
    /\ \/ /\ files' = [files EXCEPT ![backup_file] =
                          [exists    |-> TRUE,
                           opened_by |-> "backup_font_links",
                           lines     |-> <<Line("bom", "", <<>>),
                                           Line("version", "", <<>>),
                                           Line("comment", "", <<>>),
                                           Line("comment", "", <<>>)>>]]
          /\ mpc' = "backup_loop"
          /\ UNCHANGED backup_result
       \/ /\ backup_result' = "False"
          /\ mpc' = "backup_returned"
          /\ UNCHANGED files
    /\ UNCHANGED <<store, writes, backup_file, modified_file, arch_i, font_i,
                   font_links, create_result, success>>
    /\ UNCHANGED codec_vars

\* the lines backup_font_links writes for the name it has read: the value in
\* the regedit style, or the deletion of a value that is not there
BackupLines(hex_data) ==
    IF font_links'.found
    THEN <<Line("value", target_fonts[font_i], hex_data.value)>>
    ELSE <<Line("delete", target_fonts[font_i], <<>>)>>

\* backup_font_links, what follows the read of one name: hex_data is the
\* outcome of encode_to_hex_string; when it raised, the method returns False
BackupWrite(hex_data) ==
    IF font_links'.found /\ ~hex_data.ok
    THEN /\ files' = [files EXCEPT ![backup_file].lines = @ \o SectionLines]
         /\ backup_result' = "False"
         /\ mpc' = "backup_returned"
         /\ UNCHANGED <<arch_i, font_i>>
    ELSE /\ files' = [files EXCEPT ![backup_file].lines =
                         @ \o SectionLines \o BackupLines(hex_data) \o BlankLine]
         /\ Advance
         /\ mpc' = IF LastPlace THEN "backup_count" ELSE "backup_loop"
         /\ UNCHANGED backup_result

\* backup_font_links: one name is read, encoded and written
BackupFont ==
    /\ mpc = "backup_loop"
    /\ font_links' = ReadBy("backup_font_links")
    /\ BackupWrite(encode_to_hex_string(
           [isstr |-> FALSE, value |-> font_links'.value], "regedit"))
    /\ UNCHANGED <<store, writes, backup_file, modified_file, calls,
                   create_result, success>>
    /\ UNCHANGED codec_vars

\* backup_font_links: an f.write raises OSError and the method returns False
BackupWriteFails ==
    /\ mpc = "backup_loop"
    /\ backup_result' = "False"
    /\ mpc' = "backup_returned"
    /\ UNCHANGED <<store, writes, backup_file, modified_file, arch_i, font_i,
                   font_links, files, calls, create_result, success>>
    /\ UNCHANGED codec_vars

\* backup_font_links: the names are read once more and counted, and the
\* method returns True
BackupCount ==
    /\ mpc = "backup_count"
    /\ backup_result' = "True"
    /\ mpc' = "backup_returned"
    /\ UNCHANGED <<store, writes, backup_file, modified_file, arch_i, font_i,
                   font_links, files, calls, create_result, success>>
    /\ UNCHANGED codec_vars

\* the bug of going on to the modification whatever the backup returned
CheckBackupIgnored ==
    /\ mpc = "backup_returned"
    /\ mpc' = "create"
    /\ UNCHANGED <<store, writes, backup_file, modified_file, arch_i, font_i,
                   font_links, files, calls, backup_result, create_result, success>>
    /\ UNCHANGED codec_vars

\* run_full_process: "if not self.backup_font_links(backup_file): return False"
CheckBackup ==
    /\ mpc = "backup_returned"
    /\ IF backup_result = "True"
       THEN /\ mpc' = "create"
            /\ UNCHANGED success
       ELSE /\ mpc' = "done"
            /\ success' = "False"
    /\ UNCHANGED <<store, writes, backup_file, modified_file, arch_i, font_i,
                   font_links, files, calls, backup_result, create_result>>
    /\ UNCHANGED codec_vars

\* create_modified_reg is called and opens its file, or open raises OSError
\* and the method returns False
CreateOpen ==
    /\ mpc = "create"
    /\ calls' = Append(calls, "create_modified_reg")
    /\ \/ /\ files' = [files EXCEPT ![modified_file] =
                          [exists    |-> TRUE,
                           opened_by |-> "create_modified_reg",
                           lines     |-> <<Line("bom", "", <<>>),
                                           Line("version", "", <<>>),
                                           Line("comment", "", <<>>),
                                           Line("comment", backup_file, <<>>),
                                           Line("comment", "", <<>>),
                                           Line("comment", "", <<>>),
                                           Line("comment", "", <<>>),
                                           Line("comment", "", <<>>)>>]]
          /\ mpc' = "create_loop"
          /\ UNCHANGED create_result
       \/ /\ create_result' = "False"
          /\ mpc' = "create_returned"
          /\ UNCHANGED files
    /\ UNCHANGED <<store, writes, backup_file, modified_file, arch_i, font_i,
                   font_links, backup_result, success>>
    /\ UNCHANGED codec_vars

\* create_modified_reg: the list written for the name read. A value that is
\* there gets font_entries at its end when the name is in append_fonts and
\* at its start otherwise; a value that is not there becomes font_entries
new_font_links ==
    IF ~font_links'.found THEN font_entries
    ELSE IF target_fonts[font_i] \in append_fonts
    THEN font_links'.value \o font_entries
    ELSE font_entries \o font_links'.value

\* create_modified_reg, what follows the read of one name: hex_data is the
\* outcome of encode_to_hex_string; when it raised, the method returns False
CreateWrite(hex_data) ==
    IF ~hex_data.ok
    THEN /\ files' = [files EXCEPT ![modified_file].lines = @ \o SectionLines]
         /\ create_result' = "False"
         /\ mpc' = "create_returned"
         /\ UNCHANGED <<arch_i, font_i>>
    ELSE /\ files' = [files EXCEPT ![modified_file].lines =
                         @ \o SectionLines
                           \o <<Line("value", target_fonts[font_i], hex_data.value)>>
                           \o BlankLine]
         /\ Advance
         /\ mpc' = IF LastPlace THEN "create_end" ELSE "create_loop"
         /\ UNCHANGED create_result

\* create_modified_reg: one name is read, extended, encoded and written
CreateFont ==
    /\ mpc = "create_loop"
    /\ font_links' = ReadBy("create_modified_reg")
    /\ CreateWrite(encode_to_hex_string(
           [isstr |-> FALSE, value |-> new_font_links], "regedit"))
    /\ UNCHANGED <<store, writes, backup_file, modified_file, calls,
                   backup_result, success>>
    /\ UNCHANGED codec_vars

\* create_modified_reg: an f.write raises OSError and the method returns False
CreateWriteFails ==
    /\ mpc = "create_loop"
    /\ create_result' = "False"
    /\ mpc' = "create_returned"
    /\ UNCHANGED <<store, writes, backup_file, modified_file, arch_i, font_i,
                   font_links, files, calls, backup_result, success>>
    /\ UNCHANGED codec_vars

\* create_modified_reg: the loops are over and the method returns True
CreateReturn ==
    /\ mpc = "create_end"
    /\ create_result' = "True"
    /\ mpc' = "create_returned"
    /\ UNCHANGED <<store, writes, backup_file, modified_file, arch_i, font_i,
                   font_links, files, calls, backup_result, success>>
    /\ UNCHANGED codec_vars

\* run_full_process: "if not self.create_modified_reg(...): return False",
\* then the closing messages and "return True"
CheckCreate ==
    /\ mpc = "create_returned"
    /\ success' = create_result
    /\ mpc' = "done"
    /\ UNCHANGED <<store, writes, backup_file, modified_file, arch_i, font_i,
                   font_links, files, calls, backup_result, create_result>>
    /\ UNCHANGED codec_vars

\* run_full_process: "except KeyboardInterrupt: return False", wherever the
\* interrupt comes; the method that was running does not return
KeyboardInterrupt ==
    /\ mpc \notin {"idle", "done"}
    /\ success' = "False"
    /\ mpc' = "done"
    /\ UNCHANGED <<store, writes, backup_file, modified_file, arch_i, font_i,
                   font_links, files, calls, backup_result, create_result>>
    /\ UNCHANGED codec_vars

ManagerNext ==
    \/ StoreWrite
    \/ RunFullProcess
    \/ PreviewFont
    \/ BackupOpen
    \/ BackupFont
    \/ BackupWriteFails
    \/ BackupCount
    \/ CheckBackup
    \/ CreateOpen
    \/ CreateFont
    \/ CreateWriteFails
    \/ CreateReturn
    \/ CheckCreate
    \/ KeyboardInterrupt

ManagerSpec == Init /\ [][ManagerNext]_vars

(***************************************************************************)
(* Properties of run_full_process.                                         *)
(***************************************************************************)
\* the methods of run_full_process in the order of its code
ProcessOrder == <<"preview_current_config", "backup_font_links", "create_modified_reg">>

\* create_modified_reg has been started
CreateStarted == \E k \in 1..Len(calls) : calls[k] = "create_modified_reg"

\* a file that create_modified_reg has opened
ModifiedFileProduced == \E n \in FileNames : files[n].opened_by = "create_modified_reg"

\* backup_font_links has read a value that is there and is the empty list
BackupReadEmptyList ==
    /\ font_links.by = "backup_font_links"
    /\ font_links.found
    /\ font_links.value = <<>>

\* C11: run_full_process calls preview_current_config, backup_font_links and
\* create_modified_reg in that order; create_modified_reg is started, and
\* opens its file, only after backup_font_links has returned True;
\* run_full_process returns True only when both have returned True; and when
\* backup_font_links reads an empty list for a name, it returns False and no
\* modified file is produced.
BackupBeforeModification ==
    /\ Len(calls) <= Len(ProcessOrder)
    /\ \A k \in 1..Len(calls) : calls[k] = ProcessOrder[k]
    /\ CreateStarted \/ ModifiedFileProduced => backup_result = "True"
    /\ success = "True" => backup_result = "True" /\ create_result = "True"
    /\ BackupReadEmptyList =>
          /\ backup_result = "False"
          /\ ~CreateStarted
          /\ ~ModifiedFileProduced
          /\ mpc = "done" => success = "False"

\* run_full_process has returned after a backup that read an empty list
\* behind a value it had written
BackupBeforeModificationWitness ==
    /\ mpc = "done"
    /\ BackupReadEmptyList
    /\ calls = <<"preview_current_config", "backup_font_links">>
    /\ files[backup_file].exists
    /\ \E k \in 1..Len(files[backup_file].lines) :
          files[backup_file].lines[k].kind = "value"
    /\ ~ModifiedFileProduced
    /\ success = "False"

====
